---- MODULE Spec2Model ----
(***************************************************************************)
(* Product Service (FastAPI): JWT issuance, bearer authentication, role    *)
(* gates and the product store, modelled from src/main.py, src/models.py   *)
(* and src/create_test_users.py.                                           *)
(*                                                                         *)
(* Time is counted in ticks, TicksPerSecond to the second, so that the     *)
(* difference between a datetime (sub-second precision) and the exp claim  *)
(* of a JWT (whole seconds, as jwt.encode writes it) is visible.           *)
(***************************************************************************)
EXTENDS Integers, Sequences, FiniteSets, TLC

VARIABLES
    users,      \* the users table: username -> role, or Absent (no row)
    products,   \* the products table: a set of rows [id, name]
    clock,      \* datetime.utcnow(), in ticks
    issued,     \* tokens returned by POST /token so far, with their history
    pcs,        \* per worker: the request being handled and where it stands
    last,       \* the handler step just taken: its request and its outcome
    advances,   \* number of clock advances so far (bounded)
    dirChanges  \* number of directory changes so far (bounded)

vars == <<users, products, clock, issued, pcs, last, advances, dirChanges>>

----------------------------------------------------------------------------
\* Bounds of the model

MaxAdvances == 2
MaxDirChanges == 1
MaxIssued == 1
TicksPerSecond == 2

----------------------------------------------------------------------------
\* Settings and schema

SECRET_KEY == "CHANGE_THIS_SECRET_KEY"
ACCESS_TOKEN_EXPIRE_MINUTES == 15
SecondsPerMinute == 60
TicksPerMinute == SecondsPerMinute * TicksPerSecond

Usernames == {"admin", "alice", "bob"}
Roles == {"admin", "privileged", "nonadmin"}
Absent == "<no row>"
None == "<None>"

\* the rows create_test_users.py seeds
SeededUsers == [u \in Usernames |->
                  CASE u = "admin" -> "admin"
                    [] u = "alice" -> "privileged"
                    [] u = "bob"   -> "nonadmin"]

ProductNames == {"widget", "gadget"}
Procs == {1, 2}

Idle == [pc |-> "idle"]
NoCaller == [username |-> None, role |-> None]
NoStep == [op |-> "none", step |-> "none"]
NoBody == [empty |-> TRUE]

----------------------------------------------------------------------------
\* Token codec

\* jwt.encode: a datetime exp is written as whole seconds (the sub-second
\* part is dropped), and the signature covers the whole claim set.
JwtEncode(payload, key) ==
    LET claims == IF "exp" \in DOMAIN payload
                  THEN [payload EXCEPT !.exp = payload.exp \div TicksPerSecond]
                  ELSE payload
    IN  [payload |-> claims, sig |-> [key |-> key, signed |-> claims]]

\* signature verification of jwt.decode
JwtVerified(t, key) == t.sig.key = key /\ t.sig.signed = t.payload

\* create_access_token(data=..., expires_minutes=...) at time now
create_access_token(data, expires_minutes, now) ==
    LET expire == now + expires_minutes * TicksPerMinute
        to_encode == [k \in DOMAIN data \cup {"exp"} |->
                        IF k = "exp" THEN expire ELSE data[k]]
    IN  JwtEncode(to_encode, SECRET_KEY)

\* (mutant of JwtExpired) exp is not verified
JwtExpiredNever(payload, now) == FALSE

\* jwt.decode's check of exp against the current time (PyJWT 2.x compares
\* the whole-second exp with the current time as a float): "exp <= now" is
\* expired
JwtExpired(payload, now) ==
    /\ "exp" \in DOMAIN payload
    /\ payload.exp * TicksPerSecond <= now

\* (mutant of decode_token) the signature is not verified
decode_token_unverified(token, now) ==
    IF /\ Len(token) = 1
       /\ token[1].ch = "jwt"
       /\ ~JwtExpired(token[1].jwt.payload, now)
    THEN [ok |-> TRUE, payload |-> token[1].jwt.payload]
    ELSE [ok |-> FALSE]

\* decode_token(token): the payload, or None on PyJWTError.  `token` is the
\* text after the first space of the header, a sequence of chunks; it is a
\* JWT only when it is exactly one jwt chunk.
decode_token(token, now) ==
    IF /\ Len(token) = 1
       /\ token[1].ch = "jwt"
       /\ JwtVerified(token[1].jwt, SECRET_KEY)
       /\ ~JwtExpired(token[1].jwt.payload, now)
    THEN [ok |-> TRUE, payload |-> token[1].jwt.payload]
    ELSE [ok |-> FALSE]

----------------------------------------------------------------------------
\* Authorization header: absent, or a string, modelled as a sequence of
\* chunks (a scheme word, a space, a JWT)

NoHeader == [present |-> FALSE]
HeaderOf(chunks) == [present |-> TRUE, value |-> chunks]
Word(w) == [ch |-> w]
Space == [ch |-> " "]
Jwt(t) == [ch |-> "jwt", jwt |-> t]
Bearer(t) == HeaderOf(<<Word("Bearer"), Space, Jwt(t)>>)

\* str.partition(" "): <<before, after>> around the first space
Partition(s) ==
    LET spaces == {i \in 1..Len(s) : s[i].ch = " "}
    IN  IF spaces = {}
        THEN <<s, <<>>>>
        ELSE LET i == CHOOSE j \in spaces : \A k \in spaces : j <= k
             IN  <<SubSeq(s, 1, i - 1), SubSeq(s, i + 1, Len(s))>>

\* str.lower()
LowerChunk(c) ==
    CASE c.ch \in {"Bearer", "BEARER", "bearer"} -> Word("bearer")
      [] c.ch \in {"Basic", "basic"} -> Word("basic")
      [] OTHER -> c
Lower(s) == [i \in 1..Len(s) |-> LowerChunk(s[i])]

----------------------------------------------------------------------------
\* User directory

\* db.query(User).filter(User.username == username).first()
FindUser(dir, username) ==
    IF username \in DOMAIN dir /\ dir[username] # Absent
    THEN [found |-> TRUE, username |-> username, role |-> dir[username]]
    ELSE [found |-> FALSE]

\* payload.get("sub")
Sub(payload) == IF "sub" \in DOMAIN payload THEN payload.sub ELSE None

Fail(status, detail) == [ok |-> FALSE, status |-> status, detail |-> detail]

\* (mutant of get_current_user) the caller carries the role claim of the
\* token instead of the role of the directory record
get_current_user_claimed_role(authorization, dir, now) ==
    IF ~authorization.present \/ authorization.value = <<>>
    THEN Fail(401, "Missing Authorization header")
    ELSE
    LET parts == Partition(authorization.value)
        scheme == parts[1]
        token == parts[2]
    IN  IF Lower(scheme) # <<Word("bearer")>> \/ token = <<>>
        THEN Fail(401, "Invalid Authorization header format")
        ELSE
        LET decoded == decode_token(token, now)
        IN  IF ~decoded.ok \/ DOMAIN decoded.payload = {}
            THEN Fail(401, "Invalid or expired token")
            ELSE
            LET username == Sub(decoded.payload)
            IN  IF username = None \/ username = ""
                THEN Fail(401, "Invalid token payload")
                ELSE
                LET user == FindUser(dir, username)
                IN  IF ~user.found
                    THEN Fail(401, "User not found")
                    ELSE [ok |-> TRUE,
                          user |-> [username |-> user.username,
                                    role |-> decoded.payload.role]]

\* get_current_user(authorization, db)
get_current_user(authorization, dir, now) ==
    IF ~authorization.present \/ authorization.value = <<>>
    THEN Fail(401, "Missing Authorization header")
    ELSE
    LET parts == Partition(authorization.value)
        scheme == parts[1]
        token == parts[2]
    IN  IF Lower(scheme) # <<Word("bearer")>> \/ token = <<>>
        THEN Fail(401, "Invalid Authorization header format")
        ELSE
        LET decoded == decode_token(token, now)
        IN  IF ~decoded.ok \/ DOMAIN decoded.payload = {}
            THEN Fail(401, "Invalid or expired token")
            ELSE
            LET username == Sub(decoded.payload)
            IN  IF username = None \/ username = ""
                THEN Fail(401, "Invalid token payload")
                ELSE
                LET user == FindUser(dir, username)
                IN  IF ~user.found
                    THEN Fail(401, "User not found")
                    ELSE [ok |-> TRUE,
                          user |-> [username |-> user.username, role |-> user.role]]

\* (mutant of require_roles) only the least privileged role is turned away,
\* whatever the declared roles
require_roles_any_but_nonadmin(roles, user) ==
    IF user.role = "nonadmin"
    THEN Fail(403, "403 Forbidden")
    ELSE [ok |-> TRUE, user |-> user]

\* require_roles(*roles): the checker, once get_current_user has given `user`
require_roles(roles, user) ==
    IF user.role \notin roles
    THEN Fail(403, "403 Forbidden")
    ELSE [ok |-> TRUE, user |-> user]

----------------------------------------------------------------------------
\* Requests

TtlInputs == {-1, 0, 1}
\* request bodies without and with expires_minutes
TargetBodies == {[username |-> u] : u \in Usernames}
TtlBodies(u) ==
    {[username |-> u]} \cup {[username |-> u, expires_minutes |-> m] : m \in TtlInputs}

\* TokenRequest: expires_minutes defaults to ACCESS_TOKEN_EXPIRE_MINUTES
TokenRequest(body) ==
    [username |-> body.username,
     expires_minutes |-> IF "expires_minutes" \in DOMAIN body
                         THEN body.expires_minutes
                         ELSE ACCESS_TOKEN_EXPIRE_MINUTES]

\* Python's  request.expires_minutes or ACCESS_TOKEN_EXPIRE_MINUTES
OrDefault(expires_minutes) ==
    IF expires_minutes = 0 THEN ACCESS_TOKEN_EXPIRE_MINUTES ELSE expires_minutes

\* tokens minted out of band with SECRET_KEY for the seeded users: POST /token
\* itself needs a bearer token, so the first ones cannot come from the service
BootstrapTokens ==
    {JwtEncode([sub |-> u, role |-> SeededUsers[u]], SECRET_KEY) : u \in Usernames}
\* signed with another key
ForgedToken == JwtEncode([sub |-> "admin", role |-> "admin"], "another key")
\* signed with SECRET_KEY, without a sub claim
NoSubToken == JwtEncode([role |-> "admin"], SECRET_KEY)
\* a token whose claims were changed after signing
Tampered(t) ==
    [t EXCEPT !.payload.exp = @ + ACCESS_TOKEN_EXPIRE_MINUTES * SecondsPerMinute]

IssuedTokens == {i.access_token : i \in issued}

\* a handler step as seen from outside: the request (endpoint, header,
\* arguments, arrival time), the caller the dependencies resolved, and the
\* response (status 0 while the handler has not answered yet)
Step(op, header, args, at, caller, status, detail, body) ==
    [op |-> op, step |-> "arrive", header |-> header, args |-> args, at |-> at,
     caller |-> caller, status |-> status, detail |-> detail, body |-> body]

\* the later step of a handler that answers in two steps: the response
Done(op, args, status, detail, body) ==
    [op |-> op, step |-> "commit", args |-> args,
     status |-> status, detail |-> detail, body |-> body]

\* the headers a client that holds the tokens `tokens` sends
BearerHeaders(tokens) == {Bearer(t) : t \in tokens}
PlainHeaders(tokens) == {NoHeader} \cup BearerHeaders(tokens)

Schemes == {"Bearer", "bearer", "BEARER", "Basic"}
\* those, and every other shape of header
AllHeaders(tokens) ==
    LET presented == tokens \cup {ForgedToken, NoSubToken}
                     \cup {Tampered(t) : t \in tokens \ BootstrapTokens}
    IN  {NoHeader, HeaderOf(<<>>), HeaderOf(<<Word("Bearer")>>),
         HeaderOf(<<Word("Bearer"), Space>>), HeaderOf(<<Space, Word("Bearer")>>)}
        \cup {HeaderOf(<<Word(w), Space, Jwt(t)>>) : w \in Schemes, t \in presented}
        \cup {HeaderOf(<<Jwt(t)>>) : t \in presented}
        \cup {HeaderOf(<<Word("Bearer"), Space, Space, Jwt(t)>>) : t \in presented}

----------------------------------------------------------------------------
Init ==
    /\ users = SeededUsers
    /\ products = {}
    /\ clock = 0
    /\ issued = {}
    /\ pcs = [p \in Procs |-> Idle]
    /\ last = NoStep
    /\ advances = 0
    /\ dirChanges = 0

----------------------------------------------------------------------------
\* The environment: time passes, and the provisioning process changes the
\* users table.  A response, once sent, is no longer the step just taken.

\* just under a minute, just over a minute
AdvanceSteps == {TicksPerMinute - 1, TicksPerMinute + 1}

Advance(d) ==
    /\ advances < MaxAdvances
    /\ clock' = clock + d
    /\ advances' = advances + 1
    /\ last' = NoStep
    /\ UNCHANGED <<users, products, issued, pcs, dirChanges>>

\* create_user(username, role): adds the row unless the username exists
create_user(username, role) ==
    /\ users' = IF FindUser(users, username).found
                THEN users
                ELSE [users EXCEPT ![username] = role]
    /\ last' = NoStep
    /\ UNCHANGED <<products, clock, issued, pcs, advances, dirChanges>>

\* an UPDATE of users.role by the provisioning process
SetRole(username, role) ==
    /\ dirChanges < MaxDirChanges
    /\ FindUser(users, username).found
    /\ users[username] # role
    /\ users' = [users EXCEPT ![username] = role]
    /\ dirChanges' = dirChanges + 1
    /\ last' = NoStep
    /\ UNCHANGED <<products, clock, issued, pcs, advances>>

\* a DELETE of a users row by the provisioning process
DeleteUser(username) ==
    /\ dirChanges < MaxDirChanges
    /\ FindUser(users, username).found
    /\ users' = [users EXCEPT ![username] = Absent]
    /\ dirChanges' = dirChanges + 1
    /\ last' = NoStep
    /\ UNCHANGED <<products, clock, issued, pcs, advances>>

----------------------------------------------------------------------------
\* POST /token

\* (mutant of create_token) privileged callers may delegate too
create_token_privileged_delegates(request, caller, dir, now) ==
    IF caller.role = "nonadmin" /\ caller.username # request.username
    THEN Fail(403, "You can create JWT tokens only for your own account.")
    ELSE
    LET user == FindUser(dir, request.username)
    IN  IF ~user.found
        THEN Fail(404, "User not found")
        ELSE [ok |-> TRUE,
              user |-> [username |-> user.username, role |-> user.role],
              access_token |->
                  create_access_token([sub |-> user.username, role |-> user.role],
                                      OrDefault(request.expires_minutes), now)]

\* (mutant of create_token) the caller is looked up instead of the target
create_token_looks_up_caller(request, caller, dir, now) ==
    IF caller.role # "admin" /\ caller.username # request.username
    THEN Fail(403, "You can create JWT tokens only for your own account.")
    ELSE
    LET user == FindUser(dir, caller.username)
    IN  IF ~user.found
        THEN Fail(404, "User not found")
        ELSE [ok |-> TRUE,
              user |-> [username |-> user.username, role |-> user.role],
              access_token |->
                  create_access_token([sub |-> user.username, role |-> user.role],
                                      OrDefault(request.expires_minutes), now)]

\* (mutant of create_token) the token embeds the caller's role
create_token_embeds_caller_role(request, caller, dir, now) ==
    IF caller.role # "admin" /\ caller.username # request.username
    THEN Fail(403, "You can create JWT tokens only for your own account.")
    ELSE
    LET user == FindUser(dir, request.username)
    IN  IF ~user.found
        THEN Fail(404, "User not found")
        ELSE [ok |-> TRUE,
              user |-> [username |-> user.username, role |-> user.role],
              access_token |->
                  create_access_token([sub |-> user.username, role |-> caller.role],
                                      OrDefault(request.expires_minutes), now)]

\* create_token up to and including create_access_token: the delegation
\* rule, the lookup of the target, the encoding
create_token(request, caller, dir, now) ==
    IF caller.role # "admin" /\ caller.username # request.username
    THEN Fail(403, "You can create JWT tokens only for your own account.")
    ELSE
    LET user == FindUser(dir, request.username)
    IN  IF ~user.found
        THEN Fail(404, "User not found")
        ELSE [ok |-> TRUE,
              user |-> [username |-> user.username, role |-> user.role],
              access_token |->
                  create_access_token([sub |-> user.username, role |-> user.role],
                                      OrDefault(request.expires_minutes), now)]

\* the second datetime.utcnow() of create_token, and the TokenResponse
TokenResponse(access_token, user, request, now) ==
    [access_token |-> access_token,
     token_type |-> "bearer",
     role |-> user.role,
     expires_at |-> now + OrDefault(request.expires_minutes) * TicksPerMinute]

\* ticks that pass between the two datetime.utcnow() calls of create_token
ElapsedTicks == {0, 1}

\* POST /token: the dependencies, then the handler; `elapsed` ticks pass
\* between the encoding of the token and the computation of expires_at
CreateToken(header, body, elapsed) ==
    LET auth == get_current_user(header, users, clock)
        request == TokenRequest(body)
    IN  IF ~auth.ok
        THEN /\ last' = Step("create_token", header, body, clock, NoCaller,
                             auth.status, auth.detail, NoBody)
             /\ UNCHANGED <<users, products, clock, issued, pcs, advances, dirChanges>>
        ELSE
        LET made == create_token(request, auth.user, users, clock)
        IN  IF ~made.ok
            THEN /\ last' = Step("create_token", header, body, clock, auth.user,
                                 made.status, made.detail, NoBody)
                 /\ UNCHANGED <<users, products, clock, issued, pcs, advances, dirChanges>>
            ELSE /\ Cardinality(issued) < MaxIssued
                 /\ clock' = clock + elapsed
                 /\ last' = Step("create_token", header, body, clock, auth.user, 200, "",
                                 TokenResponse(made.access_token, made.user, request, clock'))
                 /\ issued' = issued \cup
                       {[access_token |-> made.access_token,
                         caller |-> [username |-> auth.user.username,
                                     role |-> users[auth.user.username]],
                         issued_at |-> clock,
                         minutes |-> OrDefault(request.expires_minutes),
                         dir_role |-> users[request.username]]}
                 /\ UNCHANGED <<users, products, pcs, advances, dirChanges>>

----------------------------------------------------------------------------
\* Products

\* db.query(Product).filter(Product.name == name).first()
FindProductByName(rows, name) == {r \in rows : r.name = name}
\* db.query(Product).filter(Product.id == pid).first()
FindProductById(rows, pid) == {r \in rows : r.id = pid}

\* the id the database gives the next row
NextId(rows) == Cardinality(rows) + 1

\* POST /products: the dependencies, then the handler up to the existence check
AddProductBegin(p, header, name) ==
    /\ pcs[p] = Idle
    /\ LET auth == get_current_user(header, users, clock)
       IN  IF ~auth.ok
           THEN /\ last' = Step("add_product", header, name, clock, NoCaller,
                                auth.status, auth.detail, NoBody)
                /\ pcs' = pcs
           ELSE
           LET gate == require_roles({"admin"}, auth.user)
           IN  IF ~gate.ok
               THEN /\ last' = Step("add_product", header, name, clock, auth.user,
                                    gate.status, gate.detail, NoBody)
                    /\ pcs' = pcs
               ELSE IF FindProductByName(products, name) # {}
               THEN /\ last' = Step("add_product", header, name, clock, auth.user,
                                    409, "Product name must be unique.", NoBody)
                    /\ pcs' = pcs
               ELSE /\ last' = Step("add_product", header, name, clock, auth.user,
                                    0, "", NoBody)
                    /\ pcs' = [pcs EXCEPT ![p] = [pc |-> "adding", name |-> name]]
    /\ UNCHANGED <<users, products, clock, issued, advances, dirChanges>>

\* the rest of the handler: db.add(product); db.commit().  The UNIQUE
\* constraint on products.name makes the commit raise IntegrityError,
\* which no handler catches.
AddProductCommit(p) ==
    /\ pcs[p].pc = "adding"
    /\ LET name == pcs[p].name
       IN  IF FindProductByName(products, name) # {}
           THEN /\ last' = Done("add_product", name, 500, "Internal Server Error", NoBody)
                /\ products' = products
           ELSE LET product == [id |-> NextId(products), name |-> name]
                IN  /\ last' = Done("add_product", name, 200, "", product)
                    /\ products' = products \cup {product}
    /\ pcs' = [pcs EXCEPT ![p] = Idle]
    /\ UNCHANGED <<users, clock, issued, advances, dirChanges>>

\* GET /products
get_products(header) ==
    /\ LET auth == get_current_user(header, users, clock)
       IN  IF ~auth.ok
           THEN last' = Step("get_products", header, <<>>, clock, NoCaller,
                             auth.status, auth.detail, NoBody)
           ELSE
           LET gate == require_roles({"admin", "privileged"}, auth.user)
           IN  IF ~gate.ok
               THEN last' = Step("get_products", header, <<>>, clock, auth.user,
                                 gate.status, gate.detail, NoBody)
               ELSE IF products = {}
               THEN last' = Step("get_products", header, <<>>, clock, auth.user,
                                 200, "No products found", NoBody)
               ELSE last' = Step("get_products", header, <<>>, clock, auth.user,
                                 200, "", [rows |-> products])
    /\ UNCHANGED <<users, products, clock, issued, pcs, advances, dirChanges>>

\* GET /products/{pid}
get_product(header, pid) ==
    /\ LET auth == get_current_user(header, users, clock)
           found == FindProductById(products, pid)
       IN  IF ~auth.ok
           THEN last' = Step("get_product", header, pid, clock, NoCaller,
                             auth.status, auth.detail, NoBody)
           ELSE
           LET gate == require_roles({"admin", "privileged"}, auth.user)
           IN  IF ~gate.ok
               THEN last' = Step("get_product", header, pid, clock, auth.user,
                                 gate.status, gate.detail, NoBody)
               ELSE IF found = {}
               THEN last' = Step("get_product", header, pid, clock, auth.user,
                                 404, "Product not found", NoBody)
               ELSE last' = Step("get_product", header, pid, clock, auth.user,
                                 200, "", CHOOSE r \in found : TRUE)
    /\ UNCHANGED <<users, products, clock, issued, pcs, advances, dirChanges>>

----------------------------------------------------------------------------
\* Specifications

Tokens == IssuedTokens \cup BootstrapTokens
AdminToken == JwtEncode([sub |-> "admin", role |-> "admin"], SECRET_KEY)
ProductIds == 1..Cardinality(ProductNames)

\* token requests and a gated read, one at a time, while the provisioning
\* process changes the directory
Next ==
    \/ \E u \in Usernames, r \in Roles : create_user(u, r)
    \/ \E u \in Usernames, r \in Roles : SetRole(u, r)
    \/ \E u \in Usernames : DeleteUser(u)
    \/ \E h \in PlainHeaders(Tokens), b \in TargetBodies : CreateToken(h, b, 0)
    \/ \E h \in PlainHeaders(Tokens) : get_products(h)

Spec == Init /\ [][Next]_vars

\* requests one at a time while time passes
NextTime ==
    \/ \E d \in AdvanceSteps : Advance(d)
    \/ DeleteUser("bob")
    \/ \E h \in BearerHeaders(IssuedTokens \cup {AdminToken}),
          b \in TtlBodies("bob"), e \in ElapsedTicks : CreateToken(h, b, e)
    \/ \E h \in BearerHeaders(IssuedTokens \cup {AdminToken}) : get_products(h)

SpecTime == Init /\ [][NextTime]_vars

\* every shape of Authorization header, while time passes and users are deleted
NextAuth ==
    \/ \E d \in AdvanceSteps : Advance(d)
    \/ \E u \in Usernames : DeleteUser(u)
    \/ CreateToken(Bearer(AdminToken), [username |-> "bob", expires_minutes |-> 1], 0)
    \/ \E h \in AllHeaders(IssuedTokens \cup {AdminToken}) : get_products(h)

SpecAuth == Init /\ [][NextAuth]_vars

\* the product endpoints, handled concurrently by the workers of Procs,
\* while the provisioning process changes roles
NextProducts ==
    \/ \E u \in Usernames, r \in Roles : SetRole(u, r)
    \/ \E p \in Procs, h \in PlainHeaders(BootstrapTokens), n \in ProductNames :
          AddProductBegin(p, h, n)
    \/ \E p \in Procs : AddProductCommit(p)
    \/ \E h \in PlainHeaders(BootstrapTokens) : get_products(h)
    \/ \E h \in PlainHeaders(BootstrapTokens), pid \in ProductIds : get_product(h, pid)

SpecProducts == Init /\ [][NextProducts]_vars

----------------------------------------------------------------------------
\* Claims

\* the request that has just arrived is POST /token from an authenticated caller
TokenRequestArrived ==
    /\ last.op = "create_token"
    /\ last.step = "arrive"
    /\ last.status # 401

\* C1: a caller whose directory role is not admin and who names another
\* username is answered 403 and gets no token, and no token is issued by such
\* a request; so every token ever issued has the caller as its subject or was
\* requested by a caller whose directory role was admin at request time.
C1_Delegation ==
    /\ []((/\ TokenRequestArrived
           /\ users[last.caller.username] # "admin"
           /\ last.caller.username # last.args.username)
          => (last.status = 403 /\ last.body = NoBody))
    /\ [][(/\ last'.op = "create_token"
           /\ last'.step = "arrive"
           /\ last'.status = 403) => issued' = issued]_vars
    /\ [](\A i \in issued :
            \/ i.access_token.payload.sub = i.caller.username
            \/ i.caller.role = "admin")

\* C1 witness: a non-admin caller has asked for a token for someone else and
\* was answered 403, while an admin's delegated token exists
C1_Witness ==
    /\ TokenRequestArrived
    /\ last.status = 403
    /\ last.caller.role = "privileged"
    /\ \E i \in issued : i.access_token.payload.sub # i.caller.username

\* header shapes and token validity, stated on the header itself
BearerWords == {"Bearer", "bearer", "BEARER"}
InvalidDetails == {"Invalid or expired token", "Invalid token payload", "User not found"}
HeaderMissing(h) == ~h.present \/ Len(h.value) = 0
HeaderWellFormed(h) ==
    /\ h.present
    /\ Len(h.value) >= 3
    /\ h.value[1].ch \in BearerWords
    /\ h.value[2].ch = " "
PresentedJwtGood(h, now, dir) ==
    /\ Len(h.value) = 3
    /\ h.value[3].ch = "jwt"
    /\ LET t == h.value[3].jwt
       IN  /\ t.sig = [key |-> SECRET_KEY, signed |-> t.payload]
           /\ "exp" \in DOMAIN t.payload => now < t.payload.exp * TicksPerSecond
           /\ "sub" \in DOMAIN t.payload
           /\ t.payload.sub \in Usernames
           /\ dir[t.payload.sub] \in Roles

\* C2: get_current_user answers 401 "Missing Authorization header" for an
\* absent or empty header; 401 "Invalid Authorization header format" for a
\* header whose scheme is not bearer (any case) or that has nothing after the
\* first space; 401 of the invalid-credentials class for a token that is not
\* a JWT, is forged, is expired, lacks a subject or names a subject with no
\* directory row; and never resolves a caller in these cases.  In every
\* other case the caller is the directory record of the subject.
C2_Authenticate ==
    last.step = "arrive" =>
        LET h == last.header
        IN  CASE HeaderMissing(h) ->
                   /\ last.status = 401
                   /\ last.detail = "Missing Authorization header"
                   /\ last.caller = NoCaller
              [] ~HeaderMissing(h) /\ ~HeaderWellFormed(h) ->
                   /\ last.status = 401
                   /\ last.detail = "Invalid Authorization header format"
                   /\ last.caller = NoCaller
              [] HeaderWellFormed(h) /\ ~PresentedJwtGood(h, last.at, users) ->
                   /\ last.status = 401
                   /\ last.detail \in InvalidDetails
                   /\ last.caller = NoCaller
              [] OTHER ->
                   /\ last.status # 401
                   /\ last.caller =
                        [username |-> h.value[3].jwt.payload.sub,
                         role |-> users[h.value[3].jwt.payload.sub]]

\* C2 witness: the token of a user deleted after issuance has been presented
\* and refused
C2_Witness ==
    /\ last.step = "arrive"
    /\ \E i \in issued : last.header = Bearer(i.access_token)
    /\ last.status = 401
    /\ last.detail = "User not found"

\* an issued token is presented by the request that has just arrived
PresentsIssued(i) == last.step = "arrive" /\ last.header = Bearer(i.access_token)
\* issuance time + TTL
ExpiryInstant(i) == i.issued_at + i.minutes * TicksPerMinute
\* the instant of the exp claim
ExpClaimInstant(i) == i.access_token.payload.exp * TicksPerSecond
SubjectInDirectory(i) == users[i.access_token.payload.sub] \in Roles

\* C3 as stated: past issuance time + TTL every use of the token is answered
\* 401, and before that instant, with the subject in the directory, the token
\* is accepted.
C3_AsStated ==
    \A i \in issued : PresentsIssued(i) =>
        /\ last.at > ExpiryInstant(i) => last.status = 401
        /\ (last.at < ExpiryInstant(i) /\ SubjectInDirectory(i)) => last.status # 401

\* C3 (amended): past issuance time + TTL every use of the token, at any
\* endpoint, is answered 401, and once past that instant the clock stays past
\* it; before the instant of the exp claim, which is issuance time + TTL
\* rounded down to the whole second, with the subject in the directory, the
\* token is accepted.
C3_Expiry ==
    /\ [](\A i \in issued : PresentsIssued(i) =>
            /\ last.at > ExpiryInstant(i) => last.status = 401
            /\ (last.at < ExpClaimInstant(i) /\ SubjectInDirectory(i))
                 => last.status # 401)
    /\ [][\A i \in issued :
            clock > ExpiryInstant(i) => clock' > ExpiryInstant(i)]_vars

\* C3 witness: a one-minute token is presented after its expiry and refused
C3_Witness ==
    \E i \in issued :
        /\ PresentsIssued(i)
        /\ i.minutes = 1
        /\ last.at > ExpiryInstant(i)
        /\ last.status = 401

\* C4 as stated: no issued token is expired at its issuance, and a request
\* whose expires_minutes is absent, zero or negative gets the default TTL.
C4_PositiveTtl ==
    /\ \A i \in issued : ExpClaimInstant(i) > i.issued_at
    /\ (/\ TokenRequestArrived
        /\ last.status = 200
        /\ ("expires_minutes" \in DOMAIN last.args => last.args.expires_minutes <= 0))
       => last.body.access_token.payload.exp =
            (last.at + ACCESS_TOKEN_EXPIRE_MINUTES * TicksPerMinute) \div TicksPerSecond

\* C5: a request with a valid token of a user who has a directory row is
\* decided by the role of that row: the caller is the directory record, the
\* role gate of GET /products refuses it iff that role is neither admin nor
\* privileged, and the delegation rule refuses it iff that role is not admin
\* and the target is another user; the role claim of the token plays no part.
C5_DirectoryRole ==
    \A t \in Tokens :
        (/\ last.step = "arrive"
         /\ last.header = Bearer(t)
         /\ users[t.payload.sub] \in Roles)
        => LET role == users[t.payload.sub]
           IN  /\ last.caller = [username |-> t.payload.sub, role |-> role]
               /\ last.op = "get_products" =>
                    (last.status = 403 <=> role \notin {"admin", "privileged"})
               /\ last.op = "create_token" =>
                    (last.status = 403 <=>
                       (role # "admin" /\ t.payload.sub # last.args.username))

\* C5 witness: a token that says admin, of a user who no longer is one, has
\* been used to ask for somebody else's token and was refused
C5_Witness ==
    \E t \in Tokens :
        /\ TokenRequestArrived
        /\ last.header = Bearer(t)
        /\ t.payload.role = "admin"
        /\ users[t.payload.sub] \in Roles \ {"admin"}
        /\ last.status = 403

\* C6 as stated: a token request of any authenticated caller for a username
\* with no directory row is answered 404 and yields no token.
C6_AsStated ==
    (TokenRequestArrived /\ users[last.args.username] = Absent)
    => (last.status = 404 /\ last.body = NoBody)

\* C6 (amended): a token request for a username with no directory row yields
\* no token; it is answered 404 when the request passes the delegation rule
\* (the caller's directory role is admin, or the caller names itself), and
\* 403 (the delegation rule comes first) when it does not.
C6_NotFound ==
    /\ []((TokenRequestArrived /\ users[last.args.username] = Absent)
          => /\ last.body = NoBody
             /\ last.status =
                  IF \/ users[last.caller.username] = "admin"
                     \/ last.caller.username = last.args.username
                  THEN 404 ELSE 403)
    /\ [][(/\ last'.op = "create_token"
           /\ last'.step = "arrive"
           /\ users[last'.args.username] = Absent) => issued' = issued]_vars

\* C6 witness: an admin has asked for the token of a deleted user
C6_Witness ==
    /\ TokenRequestArrived
    /\ users[last.args.username] = Absent
    /\ last.caller.role = "admin"
    /\ last.status = 404

\* C7: the role claim of every issued token is the directory role its
\* subject had when the token was issued, whatever the directory says since;
\* and a token being issued embeds the role the directory holds now.
C7_StaleClaim ==
    /\ \A i \in issued : i.access_token.payload.role = i.dir_role
    /\ (TokenRequestArrived /\ last.status = 200)
       => /\ last.body.access_token.payload.role = users[last.args.username]
          /\ last.body.role = users[last.args.username]

\* C7 witness: an issued token carries a role its subject no longer has
C7_Witness ==
    \E i \in issued :
        /\ SubjectInDirectory(i)
        /\ users[i.access_token.payload.sub] # i.access_token.payload.role
        /\ i.access_token.payload.role = SeededUsers[i.access_token.payload.sub]

\* the roles each product endpoint declares
ProductOps == {"add_product", "get_products", "get_product"}
DeclaredRoles(op) ==
    IF op = "add_product" THEN {"admin"} ELSE {"admin", "privileged"}

\* C8: a product request without credentials is answered 401, never 403; a
\* product request of an authenticated caller passes the role gate iff the
\* caller's role is among the declared ones (admin for POST /products, admin
\* or privileged for the two GETs) and is answered 403 otherwise.
C8_RoleGate ==
    (last.step = "arrive" /\ last.op \in ProductOps) =>
        /\ last.header = NoHeader => last.status = 401
        /\ \A t \in BootstrapTokens : last.header = Bearer(t) =>
              IF users[t.payload.sub] \in DeclaredRoles(last.op)
              THEN last.status \in {0, 200, 404, 409}
              ELSE last.status = 403

\* C8 witness: a privileged caller has been refused by POST /products
C8_Witness ==
    /\ last.step = "arrive"
    /\ last.op = "add_product"
    /\ last.caller.role = "privileged"
    /\ last.status = 403

\* C9 as stated: in the response of POST /token, expires_at is the exp claim
\* of access_token and role is its role claim.
C9_ResponseConsistent ==
    (TokenRequestArrived /\ last.status = 200)
    => /\ last.body.expires_at = last.body.access_token.payload.exp * TicksPerSecond
       /\ last.body.role = last.body.access_token.payload.role

\* C10 as stated: the store never holds two products of one name, and a
\* POST /products whose name is already stored is answered 409, no other
\* error, and stores nothing.
C10_UniqueNames ==
    /\ \A r1, r2 \in products : r1.name = r2.name => r1 = r2
    /\ last.op = "add_product" => last.status \in {0, 200, 401, 403, 409}

====
